---- MODULE Spec2Model ----
(***************************************************************************)
(* Model of the video pre-training data pipeline of                        *)
(* pretrain-image-model.ipynb: load_video_paths, load_video_frames,        *)
(* get_frame_embeddings, prepare_data and VideoFrameDataset.               *)
(*                                                                         *)
(* A decoded frame is a one-pixel image <<B, G, R>>; an embedding is a     *)
(* vector (sequence of integers); a tensor made by torch.stack is the      *)
(* sequence of the stacked items.  Sequence positions are 1-based, Python  *)
(* indices 0-based: Python lst[i] is lst[i + 1] here.                      *)
(***************************************************************************)
EXTENDS Integers, Sequences, FiniteSets, TLC

\* ---------------------------------------------------------------- bounds
\* most entries os.listdir returns
MaxFiles == 2
\* most frames video.read() delivers for one video
MaxFrames == 5
\* get_item is tried on indices -(size + IdxSlack) .. size + IdxSlack
IdxSlack == 2

\* ------------------------------------------------------ program constants
\* the three context slots of prepare_data
W == 3
\* fps=8, the default of load_video_frames and of VideoFrameDataset
DefaultFps == 8

\* ----------------------------------------------------------- input domains
\* names os.listdir may return; a name is a sequence of characters
FileNames ==
  { <<"a", ".", "m", "p", "4">>,
    <<"b", ".", "m", "p", "4">>,
    <<"c", ".", "t", "x", "t">>,
    <<"m", "p", "4">> }

\* values video.get(cv2.CAP_PROP_FPS) may return (0 when it is unavailable)
Rates == {0, 2, 12, 20, 30}

\* values passed as fps
FpsValues == {0, DefaultFps}

\* training_path = 'videos/'
training_path == <<"videos/">>

\* ------------------------------------------------------------ pure helpers
Max(a, b) == IF a >= b THEN a ELSE b

\* str.endswith
endswith(s, suffix) ==
  /\ Len(s) >= Len(suffix)
  /\ SubSeq(s, Len(s) - Len(suffix) + 1, Len(s)) = suffix

\* os.path.join(training_path, f) for a relative name f and a path ending in /
path_join(p, f) == p \o f

\* [os.path.join(training_path, f) for f in listing if f.endswith('.mp4')]
RECURSIVE load_video_paths(_)
load_video_paths(names) ==
  IF names = << >> THEN << >>
  ELSE LET f == Head(names)
           rest == load_video_paths(Tail(names))
       IN IF endswith(f, <<".", "m", "p", "4">>)
          THEN <<path_join(training_path, f)>> \o rest
          ELSE rest

\* Python 3 round() of the float r / f for integers r >= 0, f > 0:
\* nearest integer, a tie goes to the even neighbour
py_round_div(r, f) ==
  LET q == r \div f
      m == r % f
  IN IF 2 * m < f THEN q
     ELSE IF 2 * m > f THEN q + 1
     ELSE IF q % 2 = 0 THEN q ELSE q + 1

frame_skip_floor(r, f) == Max(1, r \div f)

\* max(1, round(frame_rate / fps)), fps # 0
frame_skip_of(r, f) == Max(1, py_round_div(r, f))

\* the j-th frame (0-based) video v decodes to: a BGR pixel
decode(v, j) == <<j + 1, v, 0>>

\* cv2.cvtColor(frame, cv2.COLOR_BGR2RGB): the channel order is reversed
cvtColor(frame) == <<frame[3], frame[2], frame[1]>>

\* img2vec.get_vec(frame, tensor=True): a deterministic stand-in for the
\* pretrained model, a vector of fixed length that is never all zero
get_vec(frame) == <<frame[2], frame[3]>>

\* torch.zeros(shape)
zeros(n) == [d \in 1 .. n |-> 0]

prepare_data_offbyone(embedded_frames) ==
  LET null_frame == zeros(Len(embedded_frames[1]))
      row(i) == << IF i - 3 <= 0 THEN null_frame ELSE embedded_frames[(i - 3) + 1],
                   IF i - 2 <= 0 THEN null_frame ELSE embedded_frames[(i - 2) + 1],
                   IF i - 1 <= 0 THEN null_frame ELSE embedded_frames[(i - 1) + 1] >>
  IN << [n \in 1 .. Len(embedded_frames) |-> row(n - 1)],
        [n \in 1 .. Len(embedded_frames) |-> embedded_frames[n]] >>

\* prepare_data for a non-empty list: the pair (X, y) of stacked tensors
prepare_data(embedded_frames) ==
  LET null_frame == zeros(Len(embedded_frames[1]))
      row(i) == << IF i - 3 < 0 THEN null_frame ELSE embedded_frames[(i - 3) + 1],
                   IF i - 2 < 0 THEN null_frame ELSE embedded_frames[(i - 2) + 1],
                   IF i - 1 < 0 THEN null_frame ELSE embedded_frames[(i - 1) + 1] >>
  IN << [n \in 1 .. Len(embedded_frames) |-> row(n - 1)],
        [n \in 1 .. Len(embedded_frames) |-> embedded_frames[n]] >>

\* does the list subscription lst[idx] return (TRUE) or raise IndexError
list_index_ok_nowrap(lst, idx) == 0 <= idx /\ idx < Len(lst)

list_index_ok(lst, idx) == -Len(lst) <= idx /\ idx < Len(lst)

\* the element lst[idx] returns, a negative idx counting from the end
list_index(lst, idx) == IF idx >= 0 THEN lst[idx + 1] ELSE lst[Len(lst) + idx + 1]

\* ------------------------------------------------------------------ state
VARIABLES
  listing,          \* what os.listdir(training_path) returns
  fps,              \* the fps argument
  pc,               \* position of the program
  video_paths,      \* self.video_paths
  vi,               \* 1-based position of the for loop in video_paths
  dataset,          \* the local list of load_and_process_videos
  handle,           \* the cv2.VideoCapture of the current call
  frame_rate,       \* local of load_video_frames
  frame_skip,       \* local of load_video_frames
  success,          \* local of load_video_frames
  count,            \* local of load_video_frames
  frames,           \* local of load_video_frames, then of the for loop
  embedded_frames,  \* local of the for loop
  XY,               \* what prepare_data returned last
  sampled,          \* len(frames) of every load_video_frames call that returned
  constructed,      \* VideoFrameDataset.__init__ has returned
  self_dataset,     \* self.dataset
  err,              \* the exception that reached the caller, or "none"
  got               \* the outcome of the last __getitem__

vars == <<listing, fps, pc, video_paths, vi, dataset, handle, frame_rate,
          frame_skip, success, count, frames, embedded_frames, XY, sampled,
          constructed, self_dataset, err, got>>

\* the locals of load_video_frames
lvf_locals == <<handle, frame_rate, frame_skip, success, count, frames>>

NoGet == [kind |-> "none", idx |-> 0, value |-> << >>]

RECURSIVE InjSeqs(_, _)
\* sequences of pairwise different elements of S, of length at most n
InjSeqs(S, n) ==
  IF n = 0 THEN { << >> }
  ELSE LET shorter == InjSeqs(S, n - 1)
       IN shorter \cup { Append(s, x) : s \in shorter, x \in S }

Listings == { s \in InjSeqs(FileNames, MaxFiles) :
                \A i, j \in 1 .. Len(s) : i # j => s[i] # s[j] }

Init ==
  /\ listing \in Listings
  /\ fps \in FpsValues
  /\ pc = "start"
  /\ video_paths = << >>
  /\ vi = 1
  /\ dataset = << >>
  /\ handle = "none"
  /\ frame_rate = 0
  /\ frame_skip = 1
  /\ success = FALSE
  /\ count = 0
  /\ frames = << >>
  /\ embedded_frames = << >>
  /\ XY = << << >>, << >> >>
  /\ sampled = << >>
  /\ constructed = FALSE
  /\ self_dataset = << >>
  /\ err = "none"
  /\ got = NoGet

\* ---------------------------------------------------------------- actions
Raise_skip(e) ==
  /\ pc' = "loop"
  /\ err' = e
  /\ vi' = vi + 1
  /\ UNCHANGED <<listing, fps, video_paths, dataset, handle, frame_rate,
                 frame_skip, success, count, frames, embedded_frames, XY,
                 sampled, constructed, self_dataset, got>>

\* an exception raised inside the loop of load_and_process_videos: nothing
\* catches it, it leaves load_and_process_videos and __init__, self.dataset
\* is never assigned and nothing after the raising statement runs
Raise(e) ==
  /\ pc' = "failed"
  /\ err' = e
  /\ UNCHANGED <<listing, fps, video_paths, vi, dataset, handle, frame_rate,
                 frame_skip, success, count, frames, embedded_frames, XY,
                 sampled, constructed, self_dataset, got>>

\* video_paths = load_video_paths(training_path);
\* VideoFrameDataset.__init__ up to the call of load_and_process_videos,
\* dataset = []
Construct ==
  /\ pc = "start"
  /\ video_paths' = load_video_paths(listing)
  /\ dataset' = << >>
  /\ vi' = 1
  /\ pc' = "loop"
  /\ UNCHANGED <<listing, fps, lvf_locals, embedded_frames, XY, sampled,
                 constructed, self_dataset, err, got>>

\* load_video_frames: video = cv2.VideoCapture(video_path); frames = [];
\* frame_rate = video.get(cv2.CAP_PROP_FPS)
OpenVideo ==
  /\ pc = "loop"
  /\ vi <= Len(video_paths)
  /\ handle' = "open"
  /\ frames' = << >>
  /\ \E r \in Rates : frame_rate' = r
  /\ pc' = "skip"
  /\ UNCHANGED <<listing, fps, video_paths, vi, dataset, frame_skip, success,
                 count, embedded_frames, XY, sampled, constructed,
                 self_dataset, err, got>>

\* frame_skip = max(1, round(frame_rate / fps)); success, frame = video.read();
\* count = 0
ComputeSkip ==
  /\ pc = "skip"
  /\ IF fps = 0
     THEN Raise("ZeroDivisionError")
     ELSE /\ frame_skip' = frame_skip_of(frame_rate, fps)
          /\ \E s \in BOOLEAN : success' = s
          /\ count' = 0
          /\ pc' = "while"
          /\ UNCHANGED <<listing, fps, video_paths, vi, dataset, handle,
                         frame_rate, frames, embedded_frames, XY, sampled,
                         constructed, self_dataset, err, got>>

\* one pass of the while loop: the frame read last is kept when
\* count % frame_skip == 0, then the next frame is read
ReadFrame ==
  /\ pc = "while"
  /\ success
  /\ \/ /\ frames' = IF count % frame_skip = 0
                     THEN Append(frames, cvtColor(decode(vi, count)))
                     ELSE frames
        /\ \E s \in BOOLEAN : success' = (s /\ count + 1 < MaxFrames)
        /\ count' = count + 1
        /\ UNCHANGED <<listing, fps, pc, video_paths, vi, dataset, handle,
                       frame_rate, frame_skip, embedded_frames, XY, sampled,
                       constructed, self_dataset, err, got>>
     \/ /\ count % frame_skip = 0
        /\ Raise("cv2.error")

\* the while loop ends: video.release(); return frames
ReleaseReturn ==
  /\ pc = "while"
  /\ ~success
  /\ handle' = "released"
  /\ sampled' = Append(sampled, Len(frames))
  /\ pc' = "embed"
  /\ UNCHANGED <<listing, fps, video_paths, vi, dataset, frame_rate,
                 frame_skip, success, count, frames, embedded_frames, XY,
                 constructed, self_dataset, err, got>>

EmbedFrames_accumulate ==
  /\ pc = "embed"
  /\ \/ /\ embedded_frames' =
             embedded_frames \o [n \in 1 .. Len(frames) |-> get_vec(frames[n])]
        /\ pc' = "window"
        /\ UNCHANGED <<listing, fps, video_paths, vi, dataset, lvf_locals, XY,
                       sampled, constructed, self_dataset, err, got>>
     \/ /\ frames # << >>
        /\ Raise("EmbedderError")

\* embedded_frames = get_frame_embeddings(frames, self.img2vec)
EmbedFrames ==
  /\ pc = "embed"
  /\ \/ /\ embedded_frames' = [n \in 1 .. Len(frames) |-> get_vec(frames[n])]
        /\ pc' = "window"
        /\ UNCHANGED <<listing, fps, video_paths, vi, dataset, lvf_locals, XY,
                       sampled, constructed, self_dataset, err, got>>
     \/ /\ frames # << >>
        /\ Raise("EmbedderError")

\* prepare_data(embedded_frames): embedded_frames[0] raises IndexError on
\* an empty list
PrepareData ==
  /\ pc = "window"
  /\ IF embedded_frames = << >>
     THEN Raise("IndexError")
     ELSE /\ XY' = prepare_data(embedded_frames)
          /\ pc' = "extend"
          /\ UNCHANGED <<listing, fps, video_paths, vi, dataset, lvf_locals,
                         embedded_frames, sampled, constructed, self_dataset,
                         err, got>>

\* dataset.extend(<the tuple prepare_data returned>): its two members are
\* appended; the for loop moves on
Extend ==
  /\ pc = "extend"
  /\ dataset' = dataset \o <<XY[1], XY[2]>>
  /\ vi' = vi + 1
  /\ pc' = "loop"
  /\ UNCHANGED <<listing, fps, video_paths, lvf_locals, embedded_frames, XY,
                 sampled, constructed, self_dataset, err, got>>

\* the for loop is exhausted: return dataset; self.dataset = ...
ReturnDataset ==
  /\ pc = "loop"
  /\ vi > Len(video_paths)
  /\ self_dataset' = dataset
  /\ constructed' = TRUE
  /\ pc' = "done"
  /\ UNCHANGED <<listing, fps, video_paths, vi, dataset, lvf_locals,
                 embedded_frames, XY, sampled, err, got>>

\* __len__
size == Len(self_dataset)

\* __getitem__(idx): return self.dataset[idx]
GetItem ==
  /\ pc = "done"
  /\ \E idx \in -(size + IdxSlack) .. (size + IdxSlack) :
        got' = IF list_index_ok(self_dataset, idx)
               THEN [kind |-> "returned", idx |-> idx,
                     value |-> list_index(self_dataset, idx)]
               ELSE [kind |-> "IndexError", idx |-> idx, value |-> << >>]
  /\ UNCHANGED <<listing, fps, pc, video_paths, vi, dataset, lvf_locals,
                 embedded_frames, XY, sampled, constructed, self_dataset, err>>

Next ==
  \/ Construct
  \/ OpenVideo
  \/ ComputeSkip
  \/ ReadFrame
  \/ ReleaseReturn
  \/ EmbedFrames
  \/ PrepareData
  \/ Extend
  \/ ReturnDataset
  \/ GetItem

Spec == Init /\ [][Next]_vars

TypeOK ==
  /\ pc \in {"start", "loop", "skip", "while", "embed", "window", "extend",
             "done", "failed"}
  /\ handle \in {"none", "open", "released"}
  /\ count \in 0 .. MaxFrames
  /\ frame_skip >= 1

\* ------------------------------------------------------------- properties
RECURSIVE SumSeq(_)
SumSeq(s) == IF s = << >> THEN 0 ELSE Head(s) + SumSeq(Tail(s))

\* the all-zero embedding of the length of embedding e
NullLike(e) == [d \in 1 .. Len(e) |-> 0]

\* the video an embedding of the stand-in model was computed from
VideoOf(e) == e[1]

\* the RGB image of frame j (0-based) of video v
RgbFrame(v, j) == <<0, v, j + 1>>

\* C1: the dataset's size is the sum of the per-video sampled-frame counts,
\* and with two videos get(N_A) returns video B's first Example, three null
\* embeddings paired with B's first embedding.
C1_SizeIsSumOfSampled ==
  constructed =>
    /\ size = SumSeq(sampled)
    /\ Len(sampled) = 2 =>
         /\ list_index_ok(self_dataset, sampled[1])
         /\ LET b1 == get_vec(RgbFrame(2, 0))
            IN list_index(self_dataset, sampled[1])
                 = << <<NullLike(b1), NullLike(b1), NullLike(b1)>>, b1 >>

\* C2: a video with zero sampled frames and an empty directory are not
\* errors: the build never fails on a video whose sampling returned no
\* frame, and a dataset built from such videos only has size 0.
C2_ZeroFramesNoError ==
  /\ ~(pc = "failed" /\ Len(sampled) >= vi /\ sampled[vi] = 0)
  /\ (constructed /\ \A v \in 1 .. Len(sampled) : sampled[v] = 0) => size = 0

\* prepare_data has run on the current embedded_frames
Windowed == pc = "extend" \/ (pc = "failed" /\ err = "IndexError")

\* C3: prepare_data on N embeddings produces exactly N examples, each with a
\* context of exactly W slots, for every N including 0.
C3_NExamplesOfWSlots ==
  Windowed =>
    /\ pc # "failed"
    /\ Len(XY[1]) = Len(embedded_frames)
    /\ Len(XY[2]) = Len(embedded_frames)
    /\ \A n \in 1 .. Len(XY[1]) : Len(XY[1][n]) = W

\* C4: in prepare_data's output, context slot k of example i is the null
\* embedding when i - (W - k) < 0 and embeddings[i - (W - k)] otherwise; for
\* i < W exactly W - i slots are null; the target is embeddings[i]; five
\* embeddings give the five examples of the scenario.
C4_WindowContents ==
  pc = "extend" =>
    LET e == embedded_frames
        X == XY[1]
        y == XY[2]
        z == NullLike(e[1])
    IN /\ \A i \in 0 .. Len(e) - 1 :
            /\ y[i + 1] = e[i + 1]
            /\ \A k \in 0 .. W - 1 :
                 X[i + 1][k + 1] = IF i - (W - k) < 0 THEN z
                                   ELSE e[i - (W - k) + 1]
            /\ i < W =>
                 Cardinality({k \in 0 .. W - 1 : X[i + 1][k + 1] = z}) = W - i
       /\ Len(e) = 5 =>
            /\ X = << <<z, z, z>>, <<z, z, e[1]>>, <<z, e[1], e[2]>>,
                      <<e[1], e[2], e[3]>>, <<e[2], e[3], e[4]>> >>
            /\ y = <<e[1], e[2], e[3], e[4], e[5]>>

C4_Witness ==
  /\ pc = "extend"
  /\ Len(embedded_frames) = 5
  /\ XY[1][4] = <<embedded_frames[1], embedded_frames[2], embedded_frames[3]>>

\* C5 as written: __getitem__(index) returns an element exactly when
\* 0 <= index < size(), and raises IndexError for every other index.
C5_OnlyNonNegativeIndices ==
  got.kind # "none" =>
    (got.kind = "returned" <=> (0 <= got.idx /\ got.idx < size))

\* C5, amended: __getitem__(index) returns the stored element at position
\* index when 0 <= index < size(), the element at position size() + index
\* when -size() <= index < 0, and raises IndexError for every other index.
C5_PythonListIndexing ==
  got.kind # "none" =>
    IF 0 <= got.idx /\ got.idx < size
    THEN got.kind = "returned" /\ got.value = self_dataset[got.idx + 1]
    ELSE IF -size <= got.idx /\ got.idx < 0
    THEN got.kind = "returned" /\ got.value = self_dataset[size + got.idx + 1]
    ELSE got.kind = "IndexError"

C5_Witness ==
  /\ got.kind = "returned"
  /\ got.idx = -1
  /\ size = 4
  /\ got.value = self_dataset[4]

\* n is the integer nearest to r / f, a tie going to the even neighbour
IsNearestEven(n, r, f) ==
  LET d == IF n * f >= r THEN n * f - r ELSE r - n * f
  IN /\ 2 * d <= f
     /\ 2 * d = f => n % 2 = 0

\* C6: the stride is max(1, round(R / fps)), at least 1; the frames kept are
\* exactly the frames read whose 0-based index is a multiple of the stride,
\* in order, converted to RGB; R = 30 and fps = 8 give stride 4.
C6_StrideSampling ==
  pc \in {"while", "embed"} =>
    /\ frame_skip >= 1
    /\ \E n \in 0 .. frame_rate + 1 :
         /\ IsNearestEven(n, frame_rate, fps)
         /\ frame_skip = IF n >= 1 THEN n ELSE 1
    /\ (frame_rate = 30 /\ fps = 8) => frame_skip = 4
    /\ Len(frames) = Cardinality({j \in 0 .. count - 1 : j % frame_skip = 0})
    /\ \A n \in 1 .. Len(frames) :
         frames[n] = RgbFrame(vi, (n - 1) * frame_skip)

C6_Witness ==
  /\ pc = "embed"
  /\ frame_rate = 30
  /\ fps = 8
  /\ count = 5
  /\ frames = <<RgbFrame(vi, 0), RgbFrame(vi, 4)>>

\* C7: with a native frame rate of zero load_video_frames fails and never
\* goes on to read and sample frames.
C7_ZeroRateFails ==
  pc \in {"while", "embed"} => frame_rate # 0

\* C8: whenever load_video_frames has handed control back, by return or by
\* an exception, the video handle is released.
C8_HandleReleasedOnExit ==
  handle = "open" => pc \in {"skip", "while"}

\* C9: no context stored in the dataset holds an embedding of another video
\* than its target's, and the first W examples of every video are padded
\* with null embeddings.
C9_NoCrossVideoContext ==
  \A v \in 1 .. (Len(dataset) \div 2) :
    LET X == dataset[2 * v - 1]
        y == dataset[2 * v]
    IN \A i \in 1 .. Len(X) :
         /\ VideoOf(y[i]) = v
         /\ \A k \in 1 .. W :
              /\ X[i][k] = NullLike(y[i]) \/ VideoOf(X[i][k]) = VideoOf(y[i])
              /\ (i - 1) - (W - (k - 1)) < 0 => X[i][k] = NullLike(y[i])

C9_Witness ==
  /\ constructed
  /\ Len(self_dataset) = 4
  /\ Len(self_dataset[1]) >= 2
  /\ Len(self_dataset[3]) >= 2
  /\ self_dataset[3][2][W] = get_vec(RgbFrame(2, 0))

\* C10: videos are processed one at a time in list order, each sampled, then
\* embedded, then windowed; a failure reaches the caller, ends the build, no
\* later video is processed and no dataset is returned.
C10_AbortOnFailure ==
  /\ [](/\ err # "none" => (pc = "failed" /\ ~constructed)
        /\ constructed => /\ err = "none"
                          /\ Len(sampled) = Len(video_paths)
                          /\ Len(dataset) = 2 * Len(video_paths))
  /\ [][/\ pc = "failed" => UNCHANGED vars
        /\ vi' # vi => (vi' = vi + 1 /\ pc = "extend" /\ pc' = "loop")
        /\ (pc' = "skip" /\ pc # "skip") => (pc = "loop" /\ Len(sampled) = vi - 1)
        /\ (pc' = "embed" /\ pc # "embed") => pc = "while"
        /\ (pc' = "window" /\ pc # "window") => pc = "embed"
        /\ (pc' = "extend" /\ pc # "extend") => pc = "window"
        /\ (pc' = "done" /\ pc # "done") => (pc = "loop" /\ vi = Len(video_paths) + 1)
       ]_vars

C10_Witness ==
  /\ pc = "failed"
  /\ err = "EmbedderError"
  /\ vi = 2
  /\ Len(video_paths) = 2
  /\ Len(dataset) = 2
  /\ ~constructed
====
